---- MODULE Spec2Model ----
(***************************************************************************)
(* h3ToGeo (src/apps/filters/h3ToGeo.c): the stdin/stdout filter that      *)
(* converts H3 indexes to cell-centre points, as plain text or as a KML    *)
(* document.  The model follows main() statement by statement; text is a   *)
(* sequence of one-character strings, so that scanning, line reading and   *)
(* truncation are computed and not assumed.                                *)
(***************************************************************************)
EXTENDS Integers, Sequences, FiniteSets, TLC

VARIABLES
    argv,         \* per process (the domain is the set of invocations under study): what was supplied on the command line and on stdin
    pc,           \* per process: position in main()
    found,        \* per process: the .found field of each Arg
    index,        \* per process: H3Index index (line 69)
    userKmlName,  \* per process: char userKmlName[BUFF_SIZE] (line 70), the text before the first zero byte
    userKmlDesc,  \* per process: char userKmlDesc[BUFF_SIZE] (line 71)
    stdin,        \* per process: the unread rest of standard input
    feofStdin,    \* per process: the end-of-file indicator of stdin
    ferrorStdin,  \* per process: the error indicator of stdin
    buff,         \* per process: char buff[BUFF_SIZE] (line 117), the text before the zero byte
    out,          \* per process: the events written to the output document, in order
    diag,         \* per process: the messages of the collaborators (help text, diagnostics)
    exitStatus,   \* per process: <<>> while running, <<status>> once exited
    reads         \* per process: history of the buffers fgets returned, in order

vars == <<argv, pc, found, index, userKmlName, userKmlDesc, stdin,
          feofStdin, ferrorStdin, buff, out, diag, exitStatus, reads>>

(***************************************************************************)
(* Bounds of the model.                                                    *)
(***************************************************************************)
MaxLines == 2     \* most lines in one generated stdin content
LongExtra == 3    \* how far the over-long line and name run past BUFF_SIZE

(***************************************************************************)
(* Program constants.                                                      *)
(***************************************************************************)
BUFF_SIZE == 256

H3_INVALID_INDEX == 0

(***************************************************************************)
(* Text helpers.                                                           *)
(***************************************************************************)
NL == "\n"

Min(a, b) == IF a < b THEN a ELSE b

Repeat(c, n) == [i \in 1..n |-> c]

HexDigits == <<"0", "1", "2", "3", "4", "5", "6", "7",
               "8", "9", "a", "b", "c", "d", "e", "f">>

IsHexDigit(c) == \E i \in 1..16 : HexDigits[i] = c

HexVal(c) == (CHOOSE i \in 1..16 : HexDigits[i] = c) - 1

IsSpace(c) == c \in {" ", NL}

\* index of the first character of s that is not white space (Len(s)+1 if none)
RECURSIVE SkipSpace(_, _)
SkipSpace(s, i) ==
    IF i <= Len(s) /\ IsSpace(s[i]) THEN SkipSpace(s, i + 1) ELSE i

\* index just past the run of hexadecimal digits of s that starts at i
RECURSIVE HexRunEnd(_, _)
HexRunEnd(s, i) ==
    IF i <= Len(s) /\ IsHexDigit(s[i]) THEN HexRunEnd(s, i + 1) ELSE i

\* value of the hexadecimal digits s[i..j-1], most significant first
RECURSIVE HexValue(_, _, _, _)
HexValue(s, i, j, acc) ==
    IF i >= j THEN acc ELSE HexValue(s, i + 1, j, acc * 16 + HexVal(s[i]))

(***************************************************************************)
(* The scan formats of the Arg descriptors (lines 77, 85, 90), as sscanf   *)
(* applies them: matched says whether a conversion was stored.             *)
(***************************************************************************)
\* index just past the run of decimal digits of s that starts at i
RECURSIVE DecRunEnd(_, _)
DecRunEnd(s, i) ==
    IF i <= Len(s) /\ IsHexDigit(s[i]) /\ HexVal(s[i]) < 10
    THEN DecRunEnd(s, i + 1) ELSE i

RECURSIVE DecValue(_, _, _, _)
DecValue(s, i, j, acc) ==
    IF i >= j THEN acc ELSE DecValue(s, i + 1, j, acc * 10 + HexVal(s[i]))

\* mutant of ScanHex: the index flag scanned as a decimal integer ("%" PRIu64)
ScanHex_Decimal(text) ==
    LET i == SkipSpace(text, 1)
        j == DecRunEnd(text, i)
    IN  [matched |-> j > i, value |-> DecValue(text, i, j, 0)]

\* "%" PRIx64: skip white space, then the longest run of hexadecimal digits
ScanHex(text) ==
    LET i == SkipSpace(text, 1)
        j == HexRunEnd(text, i)
    IN  [matched |-> j > i, value |-> HexValue(text, i, j, 0)]

\* mutant of ScanChars: the width is the buffer size ("%256c"), not one less
ScanChars_FullBuffer(text) ==
    [matched |-> Len(text) > 0,
     value   |-> SubSeq(text, 1, Min(Len(text), BUFF_SIZE))]

\* "%255c": up to BUFF_SIZE - 1 characters, no white-space skipping, stored
\* into a buffer that was zero-initialised (lines 70-71)
ScanChars(text) ==
    [matched |-> Len(text) > 0,
     value   |-> SubSeq(text, 1, Min(Len(text), BUFF_SIZE - 1))]

(***************************************************************************)
(* Collaborators of main() that live outside this file.                    *)
(***************************************************************************)
\* stringToH3: the hexadecimal text decoded, or the invalid sentinel
stringToH3(str) ==
    LET i == SkipSpace(str, 1)
        j == HexRunEnd(str, i)
    IN  IF j > i THEN HexValue(str, i, j, 0) ELSE H3_INVALID_INDEX

\* h3ToString: the canonical (lower-case hexadecimal) text of an index
RECURSIVE h3ToString(_)
h3ToString(h) ==
    IF h < 16 THEN <<HexDigits[h + 1]>>
    ELSE h3ToString(h \div 16) \o <<HexDigits[(h % 16) + 1]>>

\* h3ToGeo: the centre of cell h, a function of h alone
h3ToGeo(h) == [centerOf |-> h]

\* kmlPtsHeader, outputPointKML, kmlPtsFooter: what each writes
kmlPtsHeader(name, desc) == [kind |-> "header", name |-> name, desc |-> desc]

outputPointKML(g, label) == [kind |-> "placemark", label |-> label, geo |-> g]

kmlPtsFooter == [kind |-> "footer"]

\* the printf of line 63: one coordinate line
CoordLine(g) == [kind |-> "coord", geo |-> g]

\* error(): writes the diagnostic and ends the process with this status
ErrorExitStatus == <<1>>

(***************************************************************************)
(* doCell (lines 52-66): the one event it writes for index h.              *)
(***************************************************************************)
\* mutant of doCell: the output-mode flag is ignored, every point is a placemark
doCell_AlwaysKml(h, isKmlOut) == outputPointKML(h3ToGeo(h), h3ToString(h))

doCell(h, isKmlOut) ==
    LET g == h3ToGeo(h)
    IN  IF isKmlOut THEN outputPointKML(g, h3ToString(h)) ELSE CoordLine(g)

(***************************************************************************)
(* The literals and choices of main().                                     *)
(***************************************************************************)
DefaultKmlName == <<"g", "e", "o", " ", "f", "r", "o", "m", " ", "H", "3">>

DefaultKmlDesc == <<"f", "r", "o", "m", " ", "h", "3", "T", "o", "G", "e", "o">>

\* lines 104-105
KmlName(f, userName) == IF f.kmlNameArg THEN userName ELSE DefaultKmlName

\* mutant of KmlDesc: the description override keyed on the name flag
KmlDesc_UsesNameFlag(f, userDesc) ==
    IF f.kmlNameArg THEN userDesc ELSE DefaultKmlDesc

\* lines 107-108
KmlDesc(f, userDesc) == IF f.kmlDescArg THEN userDesc ELSE DefaultKmlDesc

\* mutant of EarlyReturn: only a help request returns early
EarlyReturn_OnlyHelp(ret, helpFound) == ret # 0 /\ helpFound

\* line 97: main returns early when parseArgs returns nonzero
EarlyReturn(ret, helpFound) == ret # 0

\* mutant of ParseExitStatus: every early return reports failure
ParseExitStatus_AlwaysFailure(helpFound) == 1

\* line 100: return helpArg.found ? 0 : 1
ParseExitStatus(helpFound) == IF helpFound THEN 0 ELSE 1

\* mutant of FgetsLen: the whole line is taken, whatever the buffer holds
FgetsLen_WholeLine(s) ==
    LET nls == {i \in 1..Len(s) : s[i] = NL}
    IN  IF nls = {} THEN Len(s) ELSE CHOOSE i \in nls : \A k \in nls : i <= k

\* line 120: how many characters fgets(buff, BUFF_SIZE, stdin) takes from the
\* unread input s: through the first newline, at most BUFF_SIZE - 1
FgetsLen(s) ==
    LET lim == Min(Len(s), BUFF_SIZE - 1)
        nls == {i \in 1..lim : s[i] = NL}
    IN  IF nls = {} THEN lim ELSE CHOOSE i \in nls : \A k \in nls : i <= k

(***************************************************************************)
(* The inputs of one invocation: which flags were supplied, with which     *)
(* value text (<<>> when the flag is absent, <<text>> when present), and   *)
(* what standard input holds.                                              *)
(***************************************************************************)
IndexTexts == {<<"1", "f">>, <<"a">>, <<"z">>}

LongName == Repeat("k", BUFF_SIZE + LongExtra)

NameTexts == {<<"n">>, LongName}

DescTexts == {<<"d">>, LongName}

LineTexts == {<<"1", "f">>, <<"z">>, <<>>}

\* every content of exactly n newline-terminated lines
RECURSIVE Contents(_)
Contents(n) ==
    IF n = 0 THEN {<<>>}
    ELSE {l \o <<NL>> \o c : l \in LineTexts, c \in Contents(n - 1)}

Terminated == UNION {Contents(n) : n \in 0..MaxLines}

\* the same contents with the newline of a non-empty last line missing
Unterminated ==
    {SubSeq(c, 1, Len(c) - 1) : c \in {d \in Terminated : Len(d) >= 2 /\ d[Len(d) - 1] # NL}}

\* one line that does not fit the buffer
LongLine == <<"1", "f">> \o Repeat("z", BUFF_SIZE + LongExtra) \o <<NL>>

\* a line that, with its newline, fills the buffer exactly, and one more line
FullLine == Repeat("z", BUFF_SIZE - 2) \o <<NL, "1", "f", NL>>

StdinContents == Terminated \cup Unterminated \cup {LongLine, FullLine}

Opt(S) == {<<>>} \cup {<<v>> : v \in S}

ArgvInputs ==
    [help : BOOLEAN, bad : BOOLEAN, index : Opt(IndexTexts), kml : BOOLEAN,
     kmlName : Opt(NameTexts), kmlDesc : Opt(DescTexts), stdin : StdinContents]

NoneFound ==
    [helpArg |-> FALSE, indexArg |-> FALSE, kmlArg |-> FALSE,
     kmlNameArg |-> FALSE, kmlDescArg |-> FALSE]

(***************************************************************************)
(* parseArgs, the argument-parsing collaborator: the outcomes it can have  *)
(* on the supplied flags a.  A usage error is an unknown flag or a value   *)
(* its scan format does not match; when help and a usage error are both    *)
(* present, which one parseArgs meets first is not determined here.        *)
(***************************************************************************)
UsageError(a) ==
    \/ a.bad
    \/ a.index # <<>> /\ ~ScanHex(a.index[1]).matched
    \/ a.kmlName # <<>> /\ ~ScanChars(a.kmlName[1]).matched
    \/ a.kmlDesc # <<>> /\ ~ScanChars(a.kmlDesc[1]).matched

ParseHelp ==
    [ret |-> 1, found |-> [NoneFound EXCEPT !.helpArg = TRUE],
     index |-> 0, userKmlName |-> <<>>, userKmlDesc |-> <<>>, msg |-> "help"]

ParseError ==
    [ret |-> 2, found |-> NoneFound,
     index |-> 0, userKmlName |-> <<>>, userKmlDesc |-> <<>>, msg |-> "usage error"]

ParseSuccess(a) ==
    [ret |-> 0,
     found |-> [helpArg |-> FALSE, indexArg |-> a.index # <<>>, kmlArg |-> a.kml,
                kmlNameArg |-> a.kmlName # <<>>, kmlDescArg |-> a.kmlDesc # <<>>],
     index |-> IF a.index # <<>> THEN ScanHex(a.index[1]).value ELSE 0,
     userKmlName |-> IF a.kmlName # <<>> THEN ScanChars(a.kmlName[1]).value ELSE <<>>,
     userKmlDesc |-> IF a.kmlDesc # <<>> THEN ScanChars(a.kmlDesc[1]).value ELSE <<>>,
     msg |-> "none"]

parseArgs(a) ==
    IF a.help /\ UsageError(a) THEN {ParseHelp, ParseError}
    ELSE IF a.help THEN {ParseHelp}
    ELSE IF UsageError(a) THEN {ParseError}
    ELSE {ParseSuccess(a)}

(***************************************************************************)
(* Initial states.                                                         *)
(***************************************************************************)
Procs == DOMAIN pc

InitOf(a) ==
    /\ argv = a
    /\ pc = [p \in DOMAIN a |-> "parseArgs"]
    /\ found = [p \in DOMAIN a |-> NoneFound]
    /\ index = [p \in DOMAIN a |-> 0]
    /\ userKmlName = [p \in DOMAIN a |-> <<>>]
    /\ userKmlDesc = [p \in DOMAIN a |-> <<>>]
    /\ stdin = [p \in DOMAIN a |-> a[p].stdin]
    /\ feofStdin = [p \in DOMAIN a |-> FALSE]
    /\ ferrorStdin = [p \in DOMAIN a |-> FALSE]
    /\ buff = [p \in DOMAIN a |-> <<>>]
    /\ out = [p \in DOMAIN a |-> <<>>]
    /\ diag = [p \in DOMAIN a |-> <<>>]
    /\ exitStatus = [p \in DOMAIN a |-> <<>>]
    /\ reads = [p \in DOMAIN a |-> <<>>]

\* one invocation, on any input
Init == \E a \in ArgvInputs : InitOf([p \in {1} |-> a])

\* two invocations with the same flags: the first gets the index x with -i, the
\* second gets x as the single line of its stdin (with or without newline)
PairStdin == {<<>>, <<"1", "f", NL>>}

Twin(a, nl) ==
    [a EXCEPT !.index = <<>>,
              !.stdin = a.index[1] \o (IF nl THEN <<NL>> ELSE <<>>)]

InitPair ==
    \E a \in ArgvInputs : \E nl \in BOOLEAN :
        /\ a.index # <<>>
        /\ a.stdin \in PairStdin
        /\ InitOf(<<a, Twin(a, nl)>>)

\* two invocations on the same stdin and flags, but that the second is given
\* neither --kml-name nor --kml-description
NamesStdin == {<<>>, <<"1", "f", NL, "z", NL>>, <<"1", "f">>}

WithoutNames(a) == [a EXCEPT !.kmlName = <<>>, !.kmlDesc = <<>>]

InitNames ==
    \E a \in ArgvInputs :
        /\ a.kmlName # <<>> \/ a.kmlDesc # <<>>
        /\ a.stdin \in NamesStdin
        /\ InitOf(<<a, WithoutNames(a)>>)

(***************************************************************************)
(* The steps of main().                                                    *)
(***************************************************************************)
Exit(p, status) ==
    /\ pc' = [pc EXCEPT ![p] = "done"]
    /\ exitStatus' = [exitStatus EXCEPT ![p] = <<status>>]

\* lines 97-101: parseArgs, and the early return on help or usage error
ParseArgs(p) ==
    /\ pc[p] = "parseArgs"
    /\ \E o \in parseArgs(argv[p]) :
          /\ found' = [found EXCEPT ![p] = o.found]
          /\ index' = [index EXCEPT ![p] = o.index]
          /\ userKmlName' = [userKmlName EXCEPT ![p] = o.userKmlName]
          /\ userKmlDesc' = [userKmlDesc EXCEPT ![p] = o.userKmlDesc]
          /\ diag' = [diag EXCEPT ![p] = IF o.msg = "none" THEN @ ELSE Append(@, o.msg)]
          /\ IF EarlyReturn(o.ret, o.found.helpArg)
             THEN Exit(p, ParseExitStatus(o.found.helpArg))
             ELSE pc' = [pc EXCEPT ![p] = "header"] /\ UNCHANGED exitStatus
    /\ UNCHANGED <<argv, stdin, feofStdin, ferrorStdin, buff, out, reads>>

\* mutant of KmlHeader: a name or description override also turns the header on
KmlHeader_WhenNamed(p) ==
    /\ pc[p] = "header"
    /\ out' = [out EXCEPT ![p] =
                 IF found[p].kmlArg \/ found[p].kmlNameArg \/ found[p].kmlDescArg
                 THEN Append(@, kmlPtsHeader(KmlName(found[p], userKmlName[p]),
                                             KmlDesc(found[p], userKmlDesc[p])))
                 ELSE @]
    /\ pc' = [pc EXCEPT ![p] = "dispatch"]
    /\ UNCHANGED <<argv, found, index, userKmlName, userKmlDesc, stdin,
                   feofStdin, ferrorStdin, buff, diag, exitStatus, reads>>

\* lines 103-111: the KML header, in KML mode
KmlHeader(p) ==
    /\ pc[p] = "header"
    /\ out' = [out EXCEPT ![p] =
                 IF found[p].kmlArg
                 THEN Append(@, kmlPtsHeader(KmlName(found[p], userKmlName[p]),
                                             KmlDesc(found[p], userKmlDesc[p])))
                 ELSE @]
    /\ pc' = [pc EXCEPT ![p] = "dispatch"]
    /\ UNCHANGED <<argv, found, index, userKmlName, userKmlDesc, stdin,
                   feofStdin, ferrorStdin, buff, diag, exitStatus, reads>>

\* mutant of SingleValue: the else is missing, the loop runs after the single value
SingleValue_ThenLoop(p) ==
    /\ pc[p] = "dispatch"
    /\ found[p].indexArg
    /\ out' = [out EXCEPT ![p] = Append(@, doCell(index[p], found[p].kmlArg))]
    /\ pc' = [pc EXCEPT ![p] = "fgets"]
    /\ UNCHANGED <<argv, found, index, userKmlName, userKmlDesc, stdin,
                   feofStdin, ferrorStdin, buff, diag, exitStatus, reads>>

\* lines 113-114: single-value mode
SingleValue(p) ==
    /\ pc[p] = "dispatch"
    /\ found[p].indexArg
    /\ out' = [out EXCEPT ![p] = Append(@, doCell(index[p], found[p].kmlArg))]
    /\ pc' = [pc EXCEPT ![p] = "footer"]
    /\ UNCHANGED <<argv, found, index, userKmlName, userKmlDesc, stdin,
                   feofStdin, ferrorStdin, buff, diag, exitStatus, reads>>

\* lines 115-118: streaming mode, entering the loop
EnterLoop(p) ==
    /\ pc[p] = "dispatch"
    /\ ~found[p].indexArg
    /\ pc' = [pc EXCEPT ![p] = "fgets"]
    /\ UNCHANGED <<argv, found, index, userKmlName, userKmlDesc, stdin,
                   feofStdin, ferrorStdin, buff, out, diag, exitStatus, reads>>

\* mutant of FgetsLine: while input remains the loop reads on before decoding,
\* so a line is overwritten in buff before its point is written
FgetsLine_ReadAhead(p) ==
    /\ pc[p] = "fgets"
    /\ stdin[p] # <<>>
    /\ LET n == FgetsLen(stdin[p])
           chunk == SubSeq(stdin[p], 1, n)
       IN  /\ buff' = [buff EXCEPT ![p] = chunk]
           /\ stdin' = [stdin EXCEPT ![p] = SubSeq(@, n + 1, Len(@))]
           /\ reads' = [reads EXCEPT ![p] = Append(@, chunk)]
           /\ feofStdin' = [feofStdin EXCEPT ![p] =
                              n = Len(stdin[p]) /\ n < BUFF_SIZE - 1 /\ chunk[n] # NL]
           /\ pc' = [pc EXCEPT ![p] = IF n < Len(stdin[p]) THEN "fgets" ELSE "decode"]
    /\ UNCHANGED <<argv, found, index, userKmlName, userKmlDesc,
                   ferrorStdin, out, diag, exitStatus>>

\* mutant of FgetsLine: the loop also tests feof after a successful read, so a
\* last line that ends at end-of-file without newline leaves the loop unwritten
FgetsLine_DropPartial(p) ==
    /\ pc[p] = "fgets"
    /\ stdin[p] # <<>>
    /\ LET n == FgetsLen(stdin[p])
           chunk == SubSeq(stdin[p], 1, n)
           atEof == n = Len(stdin[p]) /\ n < BUFF_SIZE - 1 /\ chunk[n] # NL
       IN  /\ buff' = [buff EXCEPT ![p] = chunk]
           /\ stdin' = [stdin EXCEPT ![p] = SubSeq(@, n + 1, Len(@))]
           /\ reads' = [reads EXCEPT ![p] = Append(@, chunk)]
           /\ feofStdin' = [feofStdin EXCEPT ![p] = atEof]
           /\ pc' = [pc EXCEPT ![p] = IF atEof THEN "footer" ELSE "decode"]
    /\ UNCHANGED <<argv, found, index, userKmlName, userKmlDesc,
                   ferrorStdin, out, diag, exitStatus>>

\* line 120, fgets succeeds: the next line, or buffer-full of it, is in buff
FgetsLine(p) ==
    /\ pc[p] = "fgets"
    /\ stdin[p] # <<>>
    /\ LET n == FgetsLen(stdin[p])
           chunk == SubSeq(stdin[p], 1, n)
       IN  /\ buff' = [buff EXCEPT ![p] = chunk]
           /\ stdin' = [stdin EXCEPT ![p] = SubSeq(@, n + 1, Len(@))]
           /\ reads' = [reads EXCEPT ![p] = Append(@, chunk)]
           /\ feofStdin' = [feofStdin EXCEPT ![p] =
                              n = Len(stdin[p]) /\ n < BUFF_SIZE - 1 /\ chunk[n] # NL]
    /\ pc' = [pc EXCEPT ![p] = "decode"]
    /\ UNCHANGED <<argv, found, index, userKmlName, userKmlDesc,
                   ferrorStdin, out, diag, exitStatus>>

\* mutant of FgetsEof: end-of-file continues the loop instead of leaving it
FgetsEof_Continue(p) ==
    /\ pc[p] = "fgets"
    /\ stdin[p] = <<>>
    /\ feofStdin' = [feofStdin EXCEPT ![p] = TRUE]
    /\ UNCHANGED <<argv, pc, found, index, userKmlName, userKmlDesc, stdin,
                   ferrorStdin, buff, out, diag, exitStatus, reads>>

\* lines 120-122, fgets returns NULL at end-of-file: break
FgetsEof(p) ==
    /\ pc[p] = "fgets"
    /\ stdin[p] = <<>>
    /\ feofStdin' = [feofStdin EXCEPT ![p] = TRUE]
    /\ pc' = [pc EXCEPT ![p] = "footer"]
    /\ UNCHANGED <<argv, found, index, userKmlName, userKmlDesc, stdin,
                   ferrorStdin, buff, out, diag, exitStatus, reads>>

\* mutant of FgetsError: a read error leaves the loop like end-of-file
FgetsError_Break(p) ==
    /\ pc[p] = "fgets"
    /\ ~feofStdin[p]
    /\ ferrorStdin' = [ferrorStdin EXCEPT ![p] = TRUE]
    /\ pc' = [pc EXCEPT ![p] = "footer"]
    /\ UNCHANGED <<argv, found, index, userKmlName, userKmlDesc, stdin,
                   feofStdin, buff, out, diag, exitStatus, reads>>

\* lines 120-124, fgets returns NULL on a read error: error() ends the process
FgetsError(p) ==
    /\ pc[p] = "fgets"
    /\ ~feofStdin[p]
    /\ ferrorStdin' = [ferrorStdin EXCEPT ![p] = TRUE]
    /\ diag' = [diag EXCEPT ![p] = Append(@, "reading H3 index from stdin")]
    /\ pc' = [pc EXCEPT ![p] = "done"]
    /\ exitStatus' = [exitStatus EXCEPT ![p] = ErrorExitStatus]
    /\ UNCHANGED <<argv, found, index, userKmlName, userKmlDesc, stdin,
                   feofStdin, buff, out, reads>>

\* mutant of DecodeEmit: a line that decodes to the invalid index is skipped
DecodeEmit_SkipInvalid(p) ==
    /\ pc[p] = "decode"
    /\ out' = [out EXCEPT ![p] =
                 IF stringToH3(buff[p]) = H3_INVALID_INDEX THEN @
                 ELSE Append(@, doCell(stringToH3(buff[p]), found[p].kmlArg))]
    /\ pc' = [pc EXCEPT ![p] = "fgets"]
    /\ UNCHANGED <<argv, found, index, userKmlName, userKmlDesc, stdin,
                   feofStdin, ferrorStdin, buff, diag, exitStatus, reads>>

\* mutant of DecodeEmit: a line that decodes to the invalid index ends the loop
DecodeEmit_StopOnInvalid(p) ==
    /\ pc[p] = "decode"
    /\ IF stringToH3(buff[p]) = H3_INVALID_INDEX
       THEN /\ out' = out
            /\ pc' = [pc EXCEPT ![p] = "footer"]
       ELSE /\ out' = [out EXCEPT ![p] =
                         Append(@, doCell(stringToH3(buff[p]), found[p].kmlArg))]
            /\ pc' = [pc EXCEPT ![p] = "fgets"]
    /\ UNCHANGED <<argv, found, index, userKmlName, userKmlDesc, stdin,
                   feofStdin, ferrorStdin, buff, diag, exitStatus, reads>>

\* lines 127-128: decode the buffer and emit its point
DecodeEmit(p) ==
    /\ pc[p] = "decode"
    /\ out' = [out EXCEPT ![p] = Append(@, doCell(stringToH3(buff[p]), found[p].kmlArg))]
    /\ pc' = [pc EXCEPT ![p] = "fgets"]
    /\ UNCHANGED <<argv, found, index, userKmlName, userKmlDesc, stdin,
                   feofStdin, ferrorStdin, buff, diag, exitStatus, reads>>

\* mutant of KmlFooter: the exit status reports whether an invalid index was met
KmlFooter_StatusFromInput(p) ==
    /\ pc[p] = "footer"
    /\ out' = [out EXCEPT ![p] = IF found[p].kmlArg THEN Append(@, kmlPtsFooter) ELSE @]
    /\ Exit(p, IF \E i \in 1..Len(out[p]) :
                     /\ out[p][i].kind \in {"placemark", "coord"}
                     /\ out[p][i].geo = h3ToGeo(H3_INVALID_INDEX)
               THEN 1 ELSE 0)
    /\ UNCHANGED <<argv, found, index, userKmlName, userKmlDesc, stdin,
                   feofStdin, ferrorStdin, buff, diag, reads>>

\* mutant of KmlFooter: the footer is written whatever the output mode
KmlFooter_Unconditional(p) ==
    /\ pc[p] = "footer"
    /\ out' = [out EXCEPT ![p] = Append(@, kmlPtsFooter)]
    /\ Exit(p, 0)
    /\ UNCHANGED <<argv, found, index, userKmlName, userKmlDesc, stdin,
                   feofStdin, ferrorStdin, buff, diag, reads>>

\* lines 132-133: the KML footer, in KML mode, and the end of main
KmlFooter(p) ==
    /\ pc[p] = "footer"
    /\ out' = [out EXCEPT ![p] = IF found[p].kmlArg THEN Append(@, kmlPtsFooter) ELSE @]
    /\ Exit(p, 0)
    /\ UNCHANGED <<argv, found, index, userKmlName, userKmlDesc, stdin,
                   feofStdin, ferrorStdin, buff, diag, reads>>

Next ==
    \/ \E p \in Procs : ParseArgs(p)
    \/ \E p \in Procs : KmlHeader(p)
    \/ \E p \in Procs : SingleValue(p)
    \/ \E p \in Procs : EnterLoop(p)
    \/ \E p \in Procs : FgetsLine(p)
    \/ \E p \in Procs : FgetsEof(p)
    \/ \E p \in Procs : FgetsError(p)
    \/ \E p \in Procs : DecodeEmit(p)
    \/ \E p \in Procs : KmlFooter(p)

Spec == Init /\ [][Next]_vars

SpecPair == InitPair /\ [][Next]_vars

\* main is sequential and its reads return on a finite stdin: a step that can
\* be taken is taken
FairSpec == Spec /\ WF_vars(Next)

SpecNames == InitNames /\ [][Next]_vars

(***************************************************************************)
(* Vocabulary of the properties.                                           *)
(***************************************************************************)
Count(o, k) == Len(SelectSeq(o, LAMBDA e : e.kind = k))

Points(o) == SelectSeq(o, LAMBDA e : e.kind \in {"placemark", "coord"})

\* the inputs on which parseArgs reports success
PassesParsing(a) == ~a.help /\ ~UsageError(a)

Streaming(a) == a.index = <<>>

\* the run of p is over, it passed argument parsing and met no read error
EndedNormally(p) ==
    pc[p] = "done" /\ PassesParsing(argv[p]) /\ ~ferrorStdin[p]

\* the number of lines of the text s, a last line without newline included
NumLines(s) ==
    Cardinality({i \in 1..Len(s) : s[i] = NL})
        + (IF Len(s) > 0 /\ s[Len(s)] # NL THEN 1 ELSE 0)

\* every line of s, newline included, fits one buffer
AllLinesFit(s) ==
    \A i \in 1..Len(s) :
        \E j \in 0..(i - 1) : i - j <= BUFF_SIZE - 1 /\ (j = 0 \/ s[j] = NL)

RECURSIVE Flatten(_)
Flatten(ss) == IF ss = <<>> THEN <<>> ELSE Head(ss) \o Flatten(Tail(ss))

\* the number of input items of p's run: 1 for -i, else the lines read
ItemCount(p) == IF Streaming(argv[p]) THEN Len(reads[p]) ELSE 1

(***************************************************************************)
(* C1: in KML mode a run that passes argument parsing and ends normally    *)
(* has written exactly one header, then exactly N placemarks, then exactly *)
(* one footer, N being 1 with -i and the number of lines read from stdin   *)
(* otherwise (all of stdin, so N = 0 and header-footer for empty stdin;    *)
(* N is the number of lines of stdin when each fits the buffer).           *)
(***************************************************************************)
C1_KmlDocumentShape ==
    \A p \in Procs :
        (EndedNormally(p) /\ argv[p].kml) =>
            LET o == out[p]
                N == ItemCount(p)
            IN  /\ exitStatus[p] = <<0>>
                /\ Len(o) = N + 2
                /\ o[1].kind = "header"
                /\ o[Len(o)].kind = "footer"
                /\ \A i \in 2..(Len(o) - 1) : o[i].kind = "placemark"
                /\ Streaming(argv[p]) =>
                      /\ Flatten(reads[p]) = argv[p].stdin
                      /\ AllLinesFit(argv[p].stdin) => N = NumLines(argv[p].stdin)
                      /\ argv[p].stdin = <<>> => N = 0

C1_Witness ==
    \E p \in Procs :
        /\ EndedNormally(p) /\ argv[p].kml /\ Streaming(argv[p])
        /\ Len(reads[p]) = 2
        /\ Count(out[p], "placemark") = 2

(***************************************************************************)
(* C2: a process that has written the KML header has written the KML       *)
(* footer, as the last event, by the time it terminates, on every exit     *)
(* path after the header (end-of-stream, -i, and the stdin read error).    *)
(***************************************************************************)
C2_HeaderAlwaysClosed ==
    \A p \in Procs :
        (pc[p] = "done" /\ Count(out[p], "header") > 0) =>
            /\ Count(out[p], "footer") = 1
            /\ out[p][Len(out[p])].kind = "footer"

(***************************************************************************)
(* C3: a stdin read failure that is not end-of-stream aborts the process   *)
(* at once: the process is over with a nonzero status, nothing is read or  *)
(* written after the failing read, the points of the lines read before it  *)
(* stay written, and no footer is written, header or not.                  *)
(***************************************************************************)
C3_ReadErrorAborts ==
    /\ [](\A p \in Procs :
            ferrorStdin[p] =>
                /\ pc[p] = "done"
                /\ exitStatus[p] # <<>> /\ exitStatus[p] # <<0>>
                /\ Count(out[p], "footer") = 0
                /\ Len(Points(out[p])) = Len(reads[p])
                /\ argv[p].kml => Count(out[p], "header") = 1)
    /\ [][\A p \in Procs :
            (ferrorStdin'[p] /\ pc[p] = "fgets") =>
                /\ out'[p] = out[p]
                /\ reads'[p] = reads[p]
                /\ stdin'[p] = stdin[p]]_vars

C3_Witness ==
    \E p \in Procs :
        /\ ferrorStdin[p] /\ pc[p] = "done" /\ argv[p].kml
        /\ Len(reads[p]) = 1
        /\ Count(out[p], "header") = 1 /\ Count(out[p], "placemark") = 1
        /\ stdin[p] # <<>>

(***************************************************************************)
(* C4: with the help flag supplied, alone or with any of -i, --kml,        *)
(* --kml-name, --kml-description, the process exits with status 0 and has  *)
(* processed nothing: stdin unread, no header, footer, coordinate line or  *)
(* placemark.                                                              *)
(***************************************************************************)
C4_HelpExitsZero ==
    \A p \in Procs :
        (argv[p].help /\ ~UsageError(argv[p]) /\ pc[p] # "parseArgs") =>
            /\ found[p].helpArg
            /\ pc[p] = "done"
            /\ exitStatus[p] = <<0>>
            /\ out[p] = <<>>
            /\ reads[p] = <<>>
            /\ stdin[p] = argv[p].stdin

C4_Witness ==
    \E p \in Procs :
        /\ argv[p].help /\ ~UsageError(argv[p]) /\ pc[p] = "done"
        /\ argv[p].kml /\ argv[p].index # <<>>
        /\ argv[p].kmlName # <<>> /\ argv[p].kmlDesc # <<>>
        /\ argv[p].stdin # <<>>

(***************************************************************************)
(* C5: when argument parsing reports an error and help was not requested,  *)
(* the process exits with a nonzero status before any processing: stdin    *)
(* unread, no header, point or footer, --kml or not.                       *)
(***************************************************************************)
C5_UsageErrorExitsNonzero ==
    \A p \in Procs :
        (UsageError(argv[p]) /\ ~found[p].helpArg /\ pc[p] # "parseArgs") =>
            /\ pc[p] = "done"
            /\ exitStatus[p] # <<>> /\ exitStatus[p] # <<0>>
            /\ out[p] = <<>>
            /\ reads[p] = <<>>
            /\ stdin[p] = argv[p].stdin

C5_Witness ==
    \E p \in Procs :
        /\ UsageError(argv[p]) /\ ~argv[p].help /\ pc[p] = "done"
        /\ argv[p].kml /\ argv[p].stdin # <<>>

(***************************************************************************)
(* C6: with -i/--index supplied stdin is never read: at every moment of    *)
(* the run its content is unconsumed, and a run that ends normally has     *)
(* processed exactly one point, that of the flag's value.                  *)
(***************************************************************************)
C6_IndexIgnoresStdin ==
    \A p \in Procs :
        argv[p].index # <<>> =>
            /\ stdin[p] = argv[p].stdin
            /\ reads[p] = <<>>
            /\ ~feofStdin[p] /\ ~ferrorStdin[p]
            /\ EndedNormally(p) =>
                  /\ Len(Points(out[p])) = 1
                  /\ Points(out[p])[1].geo = h3ToGeo(ScanHex(argv[p].index[1]).value)

C6_Witness ==
    \E p \in Procs :
        /\ argv[p].index # <<>> /\ EndedNormally(p)
        /\ argv[p].stdin # <<>>
        /\ Len(Points(out[p])) = 1

(***************************************************************************)
(* C7: for every valid hexadecimal index x and either output mode, the run *)
(* with -i x and the streaming run whose stdin is the single line x write  *)
(* the same output: same header and footer, same single point.             *)
(***************************************************************************)
ValidHex(x) == x # <<>> /\ \A i \in 1..Len(x) : IsHexDigit(x[i])

IsPair ==
    /\ Procs = {1, 2}
    /\ argv[1].index # <<>>
    /\ \E nl \in BOOLEAN : argv[2] = Twin(argv[1], nl)

C7_SingleEqualsStream ==
    (IsPair /\ ValidHex(argv[1].index[1]) /\ ~argv[1].help /\ ~argv[1].bad
        /\ pc[1] = "done" /\ pc[2] = "done" /\ ~ferrorStdin[2]) =>
            /\ out[1] = out[2]
            /\ exitStatus[1] = exitStatus[2]
            /\ Len(Points(out[1])) = 1

C7_Witness ==
    /\ IsPair /\ argv[1].index = <<(<<"1", "f">>)>> /\ argv[1].kml
    /\ pc[1] = "done" /\ pc[2] = "done" /\ ~ferrorStdin[2]
    /\ Len(out[1]) = 3 /\ out[2] = out[1]
    /\ out[1][2].label = <<"1", "f">>

(***************************************************************************)
(* C8: in streaming mode the k-th point written is that of the k-th line   *)
(* read, for every k; the lines read are the consecutive lines of stdin;   *)
(* and reads and writes alternate: the point of line k is written before   *)
(* line k+1 is read, so at most one line is ever read and not yet written. *)
(***************************************************************************)
C8_OrderedAlternating ==
    /\ [](\A p \in Procs :
            (Streaming(argv[p]) /\ PassesParsing(argv[p])) =>
                LET pts == Points(out[p])
                IN  /\ Len(reads[p]) - Len(pts) \in {0, 1}
                    /\ \A k \in 1..Len(pts) :
                          pts[k].geo = h3ToGeo(stringToH3(reads[p][k]))
                    /\ Flatten(reads[p]) \o stdin[p] = argv[p].stdin
                    /\ \A k \in 1..Len(reads[p]) :
                          /\ Len(reads[p][k]) \in 1..(BUFF_SIZE - 1)
                          /\ \A i \in 1..(Len(reads[p][k]) - 1) : reads[p][k][i] # NL)
    /\ [][\A p \in Procs :
            reads'[p] # reads[p] =>
                /\ Len(Points(out[p])) = Len(reads[p])
                /\ out'[p] = out[p]]_vars

C8_Witness ==
    \E p \in Procs :
        /\ Streaming(argv[p]) /\ PassesParsing(argv[p])
        /\ Len(reads[p]) = 2 /\ Len(Points(out[p])) = 2
        /\ reads[p][1] # reads[p][2]
        /\ Points(out[p])[1].geo # Points(out[p])[2].geo

(***************************************************************************)
(* C9: without --kml the output of any run holds coordinate lines only,    *)
(* never a header, footer or placemark, and exactly one per processed      *)
(* input item: 1 with -i, one per line read in streaming mode.             *)
(***************************************************************************)
C9_PlainTextOnlyCoords ==
    \A p \in Procs :
        ~argv[p].kml =>
            /\ \A i \in 1..Len(out[p]) : out[p][i].kind = "coord"
            /\ (pc[p] = "done" /\ PassesParsing(argv[p])) =>
                  Len(out[p]) = ItemCount(p)

C9_Witness ==
    \E p \in Procs :
        /\ ~argv[p].kml /\ pc[p] = "done" /\ PassesParsing(argv[p])
        /\ Streaming(argv[p])
        /\ Len(reads[p]) = 2 /\ Len(out[p]) = 2

(***************************************************************************)
(* C10: in KML mode the header carries the --kml-name value if that flag   *)
(* was supplied and "geo from H3" otherwise, and the --kml-description     *)
(* value if that flag was supplied and "from h3ToGeo" otherwise, each      *)
(* choice independent of the other (values that fit the 255-character      *)
(* buffer; the header is written once parsing has passed).                 *)
(***************************************************************************)
Fits(v) == Len(v) <= BUFF_SIZE - 1

DocDefaultKmlName == <<"g", "e", "o", " ", "f", "r", "o", "m", " ", "H", "3">>

DocDefaultKmlDesc ==
    <<"g", "e", "n", "e", "r", "a", "t", "e", "d", " ", "b", "y", " ",
      "h", "3", "T", "o", "G", "e", "o">>

C11_DocumentedDefaults ==
    \A p \in Procs :
        (out[p] # <<>> /\ out[p][1].kind = "header") =>
            /\ argv[p].kmlDesc = <<>> => out[p][1].desc = DocDefaultKmlDesc
            /\ argv[p].kmlName = <<>> => out[p][1].name = DocDefaultKmlName

(***************************************************************************)
(* C12: a run that passes argument parsing and meets no stdin read error   *)
(* exits with status 0, however many of its input lines were malformed or  *)
(* decoded to the invalid index; among the runs that pass parsing only a   *)
(* read error gives a nonzero status.                                      *)
(***************************************************************************)
Malformed(line) == stringToH3(line) = H3_INVALID_INDEX

C12_MalformedInputExitsZero ==
    \A p \in Procs :
        (pc[p] = "done" /\ PassesParsing(argv[p])) =>
            /\ exitStatus[p] # <<>>
            /\ exitStatus[p] = <<0>> <=> ~ferrorStdin[p]

C12_Witness ==
    \E p \in Procs :
        /\ EndedNormally(p) /\ Streaming(argv[p])
        /\ exitStatus[p] = <<0>>
        /\ Len(reads[p]) = 2
        /\ \A k \in 1..2 : Malformed(reads[p][k])

(***************************************************************************)
(* C13: on every finite stdin the streaming loop terminates: after         *)
(* finitely many reads (each takes at least one character) it meets        *)
(* end-of-stream and leaves the loop for the footer and the exit, or meets *)
(* a read error and aborts; it never reads again once it has left the      *)
(* loop, and the process ends.                                             *)
(***************************************************************************)
C13_StreamingTerminates ==
    /\ <>(\A p \in Procs : pc[p] = "done")
    /\ [](\A p \in Procs : Len(reads[p]) <= Len(argv[p].stdin))
    /\ [][\A p \in Procs :
            /\ pc[p] \in {"footer", "done"} => pc'[p] \in {"footer", "done"}
            /\ (pc[p] = "fgets" /\ stdin[p] = <<>> /\ pc'[p] # pc[p]) =>
                  /\ pc'[p] \in {"footer", "done"}
                  /\ reads'[p] = reads[p]
                  /\ pc'[p] = "done" <=> ferrorStdin'[p]]_vars

C13_Witness ==
    \E p \in Procs :
        /\ Streaming(argv[p]) /\ PassesParsing(argv[p])
        /\ pc[p] = "done" /\ feofStdin[p] /\ ~ferrorStdin[p]
        /\ stdin[p] = <<>>
        /\ Len(reads[p]) = MaxLines

(***************************************************************************)
(* C14: the stored KML name and description never exceed 255 characters    *)
(* and never overflow their 256-byte buffers: a --kml-name or              *)
(* --kml-description value longer than 255 characters is cut to its first  *)
(* 255 characters, a shorter one is stored whole, and at least one zero    *)
(* byte of the zero-initialised buffer remains after the stored text.      *)
(***************************************************************************)
\* the bytes of a BUFF_SIZE buffer left zero after the text t was stored in it
ZeroBytesAfter(t) == BUFF_SIZE - Len(t)

Stored(opt, buffer) ==
    opt # <<>> =>
        LET v == opt[1]
        IN  /\ Len(v) > BUFF_SIZE - 1 =>
                 /\ Len(buffer) = BUFF_SIZE - 1
                 /\ \A i \in 1..(BUFF_SIZE - 1) : buffer[i] = v[i]
            /\ Len(v) <= BUFF_SIZE - 1 => buffer = v

C14_NameBuffersBounded ==
    \A p \in Procs :
        /\ Len(userKmlName[p]) <= 255 /\ ZeroBytesAfter(userKmlName[p]) >= 1
        /\ Len(userKmlDesc[p]) <= 255 /\ ZeroBytesAfter(userKmlDesc[p]) >= 1
        /\ (PassesParsing(argv[p]) /\ pc[p] # "parseArgs") =>
              /\ Stored(argv[p].kmlName, userKmlName[p])
              /\ Stored(argv[p].kmlDesc, userKmlDesc[p])

C14_Witness ==
    \E p \in Procs :
        /\ PassesParsing(argv[p]) /\ pc[p] # "parseArgs"
        /\ argv[p].kmlName # <<>> /\ Len(argv[p].kmlName[1]) > 255
        /\ Len(userKmlName[p]) = 255
        /\ argv[p].kmlDesc # <<>> /\ Len(argv[p].kmlDesc[1]) = 1
        /\ userKmlDesc[p] = argv[p].kmlDesc[1]

(***************************************************************************)
(* C15: in streaming mode every line read, well-formed or malformed (an    *)
(* empty line included), is decoded, converted and written exactly once: a *)
(* malformed line is written as the point of the invalid index, is not     *)
(* skipped, retried or reported, and does not stop the loop, which goes on *)
(* through the rest of stdin.                                              *)
(***************************************************************************)
C15_EveryLineOnce ==
    /\ [](\A p \in Procs :
            (Streaming(argv[p]) /\ PassesParsing(argv[p])) =>
                LET pts == Points(out[p])
                IN  /\ pc[p] # "decode" => Len(pts) = Len(reads[p])
                    /\ \A k \in 1..Len(pts) :
                          Malformed(reads[p][k]) =>
                              pts[k].geo = h3ToGeo(H3_INVALID_INDEX)
                    /\ ~ferrorStdin[p] => diag[p] = <<>>
                    /\ EndedNormally(p) => stdin[p] = <<>>)
    /\ [][\A p \in Procs :
            (pc[p] = "decode" /\ pc'[p] # pc[p]) =>
                /\ pc'[p] = "fgets"
                /\ Len(out'[p]) = Len(out[p]) + 1
                /\ SubSeq(out'[p], 1, Len(out[p])) = out[p]
                /\ out'[p][Len(out'[p])].geo = h3ToGeo(stringToH3(buff[p]))]_vars

C15_Witness ==
    \E p \in Procs :
        /\ Streaming(argv[p]) /\ EndedNormally(p)
        /\ reads[p] = <<(<<NL>>), (<<"1", "f", NL>>)>>
        /\ Len(Points(out[p])) = 2
        /\ Points(out[p])[1].geo = h3ToGeo(H3_INVALID_INDEX)
        /\ Points(out[p])[2].geo # h3ToGeo(H3_INVALID_INDEX)

ChunksOf(n) == (n + BUFF_SIZE - 2) \div (BUFF_SIZE - 1)

\* the positions of the newlines of s
Newlines(s) == {i \in 1..Len(s) : s[i] = NL}

\* the position of the last newline of s before position i (0 if none)
PrevNewline(s, i) ==
    LET before == {j \in Newlines(s) : j < i}
    IN  IF before = {} THEN 0 ELSE CHOOSE j \in before : \A k \in before : k <= j

\* reads needed for the lines of s that end at the newline positions in S
RECURSIVE SumChunks(_, _)
SumChunks(s, S) ==
    IF S = {} THEN 0
    ELSE LET i == CHOOSE x \in S : TRUE
         IN  ChunksOf(i - PrevNewline(s, i)) + SumChunks(s, S \ {i})

\* reads needed for the whole text s, a last line without newline included
ReadsNeeded(s) ==
    SumChunks(s, Newlines(s)) + ChunksOf(Len(s) - PrevNewline(s, Len(s) + 1))

C17_PointsPerRead ==
    \A p \in Procs :
        (Streaming(argv[p]) /\ EndedNormally(p)) =>
            LET pts == Points(out[p])
                rs == reads[p]
                s == argv[p].stdin
            IN  /\ Len(pts) = Len(rs)
                /\ Len(rs) = ReadsNeeded(s)
                /\ ~AllLinesFit(s) => Len(rs) > NumLines(s)
                /\ \A k \in 1..Len(rs) :
                      /\ Len(rs[k]) <= BUFF_SIZE - 1
                      /\ (k < Len(rs) /\ rs[k][Len(rs[k])] # NL) =>
                            Len(rs[k]) = BUFF_SIZE - 1
                      /\ pts[k] = doCell(stringToH3(rs[k]), argv[p].kml)

C17_Witness ==
    \E p \in Procs :
        /\ Streaming(argv[p]) /\ EndedNormally(p)
        /\ argv[p].stdin = LongLine
        /\ NumLines(argv[p].stdin) = 1
        /\ Len(reads[p]) = 2 /\ Len(reads[p][1]) = 255
        /\ Len(Points(out[p])) = 2
        /\ Points(out[p])[1].geo # Points(out[p])[2].geo

(***************************************************************************)
(* C18: in streaming mode a non-empty last line without a final newline is *)
(* still read and written exactly once; the loop ends only at the next     *)
(* read, the one that returns nothing at end-of-stream, and that read      *)
(* writes no point.                                                        *)
(***************************************************************************)
EndsUnterminated(s) == s # <<>> /\ s[Len(s)] # NL

\* the text of s after its last newline
LastLine(s) == SubSeq(s, PrevNewline(s, Len(s) + 1) + 1, Len(s))

C18_UnterminatedLastLine ==
    /\ [](\A p \in Procs :
            (Streaming(argv[p]) /\ EndedNormally(p)
                /\ EndsUnterminated(argv[p].stdin)) =>
                LET rs == reads[p]
                    pts == Points(out[p])
                    s == argv[p].stdin
                IN  /\ rs # <<>>
                    /\ Fits(LastLine(s)) => rs[Len(rs)] = LastLine(s)
                    /\ Len(rs) = ReadsNeeded(s)
                    /\ Len(pts) = Len(rs)
                    /\ pts[Len(pts)] = doCell(stringToH3(rs[Len(rs)]), argv[p].kml))
    /\ [][\A p \in Procs :
            /\ (pc[p] = "fgets" /\ pc'[p] = "footer") =>
                  /\ stdin[p] = <<>>
                  /\ reads'[p] = reads[p]
                  /\ out'[p] = out[p]
            /\ reads'[p] # reads[p] => pc'[p] = "decode"]_vars

C18_Witness ==
    \E p \in Procs :
        /\ Streaming(argv[p]) /\ EndedNormally(p)
        /\ argv[p].stdin = <<"z", NL, "1", "f">>
        /\ reads[p] = <<(<<"z", NL>>), (<<"1", "f">>)>>
        /\ Len(Points(out[p])) = 2
        /\ Points(out[p])[2].geo = h3ToGeo(31)

(***************************************************************************)
(* C19: --kml-name and/or --kml-description without --kml have no effect   *)
(* on the output: the run writes exactly the plain-text output of the run  *)
(* without those flags (same stdin, same read outcome), with no header, no *)
(* footer, and the names nowhere in it.                                    *)
(***************************************************************************)
IsNamesPair ==
    /\ Procs = {1, 2}
    /\ argv[1].kmlName # <<>> \/ argv[1].kmlDesc # <<>>
    /\ argv[2] = WithoutNames(argv[1])

C19_NamesWithoutKmlNoEffect ==
    (IsNamesPair /\ ~argv[1].kml /\ PassesParsing(argv[1])) =>
        /\ \A i \in 1..Len(out[1]) : out[1][i].kind = "coord"
        /\ (pc[1] = pc[2] /\ Len(reads[1]) = Len(reads[2])) => out[1] = out[2]
        /\ (pc[1] = "done" /\ pc[2] = "done" /\ ferrorStdin[1] = ferrorStdin[2]
                /\ Len(reads[1]) = Len(reads[2])) =>
              /\ out[1] = out[2]
              /\ exitStatus[1] = exitStatus[2]

C19_Witness ==
    /\ IsNamesPair /\ ~argv[1].kml /\ PassesParsing(argv[1])
    /\ argv[1].kmlName # <<>> /\ argv[1].kmlDesc # <<>>
    /\ pc[1] = "done" /\ pc[2] = "done"
    /\ ~ferrorStdin[1] /\ ~ferrorStdin[2]
    /\ Len(out[1]) = 2 /\ out[2] = out[1]

====
